---- MODULE Spec2Model ----
(***************************************************************************)
(* Yadon (src/src/lib.rs): records write and seek calls, simulating the    *)
(* return values of a bounded Write + Seek target, and replays them later  *)
(* with apply().                                                           *)
(*                                                                         *)
(* u64 / i64 / usize are modelled with WordBits bits instead of 64, so     *)
(* that the casts and the overflow behaviour of the position arithmetic    *)
(* are kept (usize is taken to be as wide as u64).  Arithmetic overflow    *)
(* panics when the crate is built with overflow checks (the dev profile)   *)
(* and wraps when it is built without them (the release profile).          *)
(***************************************************************************)
EXTENDS Integers, Sequences, FiniteSets, TLC

\* ------------------------------------------------------------- bounds
\* Width, in bits, of the machine integers of the model.
WordBits == 4
\* Number of write / seek calls recorded by one Yadon.
MaxCalls == 2
\* Largest configured length; targets have capacities up to MaxLength + 1.
MaxLength == 1

\* Option::None, for the Option<u64> fields (every Some(n) has n >= 0).
None == -1

Modulus == 2 ^ WordBits
MinI64 == -(2 ^ (WordBits - 1))
MaxI64 == 2 ^ (WordBits - 1) - 1

Min(a, b) == IF a < b THEN a ELSE b

\* ------------------------------------------------------------- inputs
Starts == {None, 0, 1}
Lengths == {None} \cup (0 .. MaxLength)
SeekOffsets == 0 .. (MaxLength + 1)
Deltas == (-1) .. 1
BufLens == 1 .. (MaxLength + 1)
Capacities == 0 .. (MaxLength + 1)

\* The buffer passed to the k-th call: n bytes, different from each other and
\* from the bytes of every other call (the code never looks at a byte's value).
Buffer(k, n) == [i \in 1 .. n |-> 10 * k + i]

VARIABLES
    operations,        \* Yadon.operations: the log
    virtual_position,  \* Yadon.virtual_position: None or a u64
    start,             \* Yadon.start
    length,            \* Yadon.length
    overflow_checks,   \* the build profile: "on", "off", or "either" while no
                       \* overflow has happened yet (it cannot be observed before)
    ncalls,            \* number of write / seek calls made so far
    call,              \* the last call made by the caller
    ret,               \* what the last call returned
    now,               \* a real fixed-capacity sink driven by the same calls
    nowRet,            \* what the real sink returned for the last call
    target0,           \* the target as handed to the last apply
    target,            \* the target as the last apply left it
    issued             \* the calls the last apply made on its target, in order

vars == <<operations, virtual_position, start, length, overflow_checks, ncalls,
          call, ret, now, nowRet, target0, target, issued>>

yadon == <<operations, virtual_position, start, length>>

\* ------------------------------------------------- machine arithmetic
\* u64 - u64, u64 + u64, i64 + i64: the wrapped value, and whether the exact
\* value was out of range.
U64Sub(a, b) == [overflow |-> a < b, val |-> (a - b) % Modulus]

U64Add(a, b) == [overflow |-> a + b >= Modulus, val |-> (a + b) % Modulus]

\* `x as i64` for a u64 x.
AsI64(x) == IF x > MaxI64 THEN x - Modulus ELSE x

\* `x as u64` for an i64 x.
AsU64(x) == x % Modulus

I64Add(a, b) ==
    [overflow |-> a + b < MinI64 \/ a + b > MaxI64,
     val |-> AsI64((a + b) % Modulus)]

Exact(v) == [overflow |-> FALSE, val |-> v]

\* The profiles the build may have, given what has been observed so far.
Profiles == IF overflow_checks = "either" THEN {"on", "off"} ELSE {overflow_checks}

\* ------------------------------------------------- the log's entries
\* WriteOperation::Write(Vec<u8>, usize)
Write(data, n) == [op |-> "Write", data |-> data, expected |-> n]

\* WriteOperation::Seek(SeekFrom, u64)
Seek(mode, arg, pos) == [op |-> "Seek", mode |-> mode, arg |-> arg, expected |-> pos]

\* ------------------------------------------------- the real target
\* A fixed-capacity seekable sink (std::io::Cursor over a zeroed byte slice, as
\* the tests build it): its cursor and its bytes.  Cursor::new leaves the
\* cursor at 0.  fuse is None for a Cursor, whose calls fail only as SinkSeek
\* says.
Sink(cap, pos) == [pos |-> pos, bytes |-> [i \in 1 .. cap |-> 0], fuse |-> None]

NoSink == [pos |-> None, bytes |-> <<>>, fuse |-> None]

\* A target (any T: Write + Seek) that answers n more calls like the sink s,
\* then fails one call with an I/O error, leaving its cursor and bytes alone.
Faulty(s, n) == [s EXCEPT !.fuse = n]

\* The target has its failure due.
Blown(s) == s.fuse = 0

\* One call answered: the failure is one call nearer, or over.
Burn(s) == [s EXCEPT !.fuse = IF @ = None \/ @ = 0 THEN None ELSE @ - 1]

IoOk(v, s) == [ok |-> TRUE, val |-> v, sink |-> s]

IoErr(s) == [ok |-> FALSE, val |-> 0, sink |-> s]

\* Cursor::seek: Start(n) moves anywhere; End and Current add a signed offset
\* and fail on a negative or overflowing position, leaving the cursor alone.
SinkSeek(s, mode, arg) ==
    IF Blown(s) THEN IoErr(Burn(s))
    ELSE IF mode = "Start"
    THEN IoOk(arg, [Burn(s) EXCEPT !.pos = arg])
    ELSE LET base == IF mode = "End" THEN Len(s.bytes) ELSE s.pos
             n == base + arg
         IN  IF n < 0 \/ n >= Modulus
             THEN IoErr(Burn(s))
             ELSE IoOk(n, [Burn(s) EXCEPT !.pos = n])

\* Cursor::write on a slice: copies what fits after min(pos, len) and advances
\* the cursor by that amount; never fails.
SinkWrite(s, buf) ==
    LET pos == Min(s.pos, Len(s.bytes))
        amt == Min(Len(buf), Len(s.bytes) - pos)
    IN  IF Blown(s) THEN IoErr(Burn(s))
        ELSE IoOk(amt,
                  [pos |-> s.pos + amt,
                   bytes |-> [i \in 1 .. Len(s.bytes) |->
                                 IF i > pos /\ i <= pos + amt THEN buf[i - pos]
                                 ELSE s.bytes[i]],
                   fuse |-> Burn(s).fuse])

\* Cursor::flush: nothing to do.
SinkFlush(s) == IF Blown(s) THEN IoErr(Burn(s)) ELSE IoOk(0, Burn(s))

\* ------------------------------------------------- Yadon::new
Init ==
    /\ operations = <<>>
    /\ virtual_position = None
    /\ start \in Starts
    /\ length \in Lengths
    /\ overflow_checks = "either"
    /\ ncalls = 0
    /\ call = [op |-> "new", mode |-> "", arg |-> 0, buf |-> <<>>, check |-> FALSE]
    /\ ret = [kind |-> "Ok", val |-> 0, expected |-> 0, actual |-> 0]
    /\ now = IF length # None
             THEN Sink(length, IF start # None THEN start ELSE 0)
             ELSE NoSink
    /\ nowRet = [ok |-> TRUE, val |-> 0]
    /\ target0 = NoSink
    /\ target = NoSink
    /\ issued = <<>>

\* ------------------------------------------------- return values
Ok(v) == [kind |-> "Ok", val |-> v, expected |-> 0, actual |-> 0]

\* std::io::ErrorKind::Unsupported
Unsupported == [kind |-> "Unsupported", val |-> 0, expected |-> 0, actual |-> 0]

\* The call did not return: an arithmetic overflow panicked.
Panic == [kind |-> "Panic", val |-> 0, expected |-> 0, actual |-> 0]

\* ApplyError::Io
Io == [kind |-> "Io", val |-> 0, expected |-> 0, actual |-> 0]

\* ApplyError::SeekDiverged(Confusion { expected, actual })
SeekDiverged(e, a) == [kind |-> "SeekDiverged", val |-> 0, expected |-> e, actual |-> a]

\* ApplyError::NumBytesWrittenDiverge(Confusion { expected, actual })
NumBytesWrittenDiverge(e, a) ==
    [kind |-> "NumBytesWrittenDiverge", val |-> 0, expected |-> e, actual |-> a]

\* What the caller sees of the real sink's answer.
Seen(r) == [ok |-> r.ok, val |-> r.val]

\* push putting the entry in front of the log instead of at its end.
push_front(ops, entry) == <<entry>> \o ops

\* self.operations.push(entry)
push(ops, entry) == Append(ops, entry)

\* ------------------------------------------------- <Yadon as Write>::write
\* initial_position without the initialisation from start.
initial_position_unset(vp) == vp

\* The position the write starts from: start, when this is the first
\* operation and both start and length are set.
initial_position(vp) ==
    IF vp = None /\ start # None /\ length # None THEN start ELSE vp

\* available_space with the whole length taken to be free, whatever the position.
available_space_whole_length(vp) == Exact(length)

\* max_length - current_position (as usize), or max_length when the position
\* is unknown.  Only used when length is set.
available_space(vp) ==
    IF vp # None THEN U64Sub(length, vp) ELSE Exact(length)

\* clamp keeping the end of the buffer instead of its beginning.
clamp_tail(buf, space) ==
    IF Len(buf) > space THEN SubSeq(buf, Len(buf) - space + 1, Len(buf)) ELSE buf

\* clamp with the truncation left out.
clamp_nothing(buf, space) == buf

\* &buf[0..available_space] when the buffer is longer than that.
clamp(buf, space) ==
    IF Len(buf) > space THEN SubSeq(buf, 1, space) ELSE buf

\* current_position + buf.len(), or buf.len() when the position is unknown.
advance(vp, n) ==
    IF vp # None THEN U64Add(vp, n) ELSE Exact(n)

\* The whole call under a build profile: whether it panicked, whether any
\* arithmetic overflowed, the position it leaves and the payload it logs.
write_outcome(buf, profile) ==
    LET vp1 == initial_position(virtual_position)
        space == IF length # None THEN available_space(vp1) ELSE Exact(0)
        data == IF length # None THEN clamp(buf, space.val) ELSE buf
        adv == advance(vp1, Len(data))
        overflow == space.overflow \/ adv.overflow
    IN  IF profile = "on" /\ overflow
        THEN [panic |-> TRUE, overflow |-> TRUE, vp |-> vp1, data |-> <<>>]
        ELSE [panic |-> FALSE, overflow |-> overflow, vp |-> adv.val, data |-> data]

write(buf) ==
    /\ ret.kind # "Panic"
    /\ ncalls < MaxCalls
    /\ \E profile \in Profiles :
          LET out == write_outcome(buf, profile)
          IN  /\ virtual_position' = out.vp
              /\ operations' = IF out.panic THEN operations
                               ELSE push(operations, Write(out.data, Len(out.data)))
              /\ ret' = IF out.panic THEN Panic ELSE Ok(Len(out.data))
              /\ overflow_checks' = IF out.overflow THEN profile ELSE overflow_checks
    /\ ncalls' = ncalls + 1
    /\ call' = [op |-> "write", mode |-> "", arg |-> 0, buf |-> buf, check |-> FALSE]
    /\ now' = IF now = NoSink THEN now ELSE SinkWrite(now, buf).sink
    /\ nowRet' = IF now = NoSink THEN nowRet ELSE Seen(SinkWrite(now, buf))
    /\ target0' = NoSink
    /\ target' = NoSink
    /\ issued' = <<>>
    /\ UNCHANGED <<start, length>>

\* ------------------------------------------------- <Yadon as Seek>::seek
\* The match of lines 173-192: the new virtual position (None when the seek
\* is unsupported) and whether the signed addition overflowed.
seek_position(mode, arg) ==
    IF mode = "Start" THEN Exact(arg)
    ELSE IF virtual_position = None /\ mode = "Current" /\ start # None
    THEN LET s == I64Add(AsI64(start), arg)
         IN  [overflow |-> s.overflow, val |-> AsU64(s.val)]
    ELSE IF mode = "End" /\ length # None
    THEN LET s == I64Add(AsI64(length), arg)
         IN  [overflow |-> s.overflow, val |-> AsU64(s.val)]
    ELSE IF virtual_position # None /\ mode = "Current"
    THEN LET s == I64Add(AsI64(virtual_position), arg)
         IN  [overflow |-> s.overflow, val |-> AsU64(s.val)]
    ELSE IF mode = "End"
    THEN Exact(None)
    ELSE Exact(AsU64(arg))

seek(mode, arg) ==
    /\ ret.kind # "Panic"
    /\ ncalls < MaxCalls
    /\ \E profile \in Profiles :
          LET pos == seek_position(mode, arg)
              panic == profile = "on" /\ pos.overflow
          IN  /\ virtual_position' = IF panic THEN virtual_position ELSE pos.val
              /\ operations' = IF panic \/ pos.val = None THEN operations
                               ELSE push(operations, Seek(mode, arg, pos.val))
              /\ ret' = IF panic THEN Panic
                        ELSE IF pos.val = None THEN Unsupported
                        ELSE Ok(pos.val)
              /\ overflow_checks' = IF pos.overflow THEN profile ELSE overflow_checks
    /\ ncalls' = ncalls + 1
    /\ call' = [op |-> "seek", mode |-> mode, arg |-> arg, buf |-> <<>>, check |-> FALSE]
    /\ now' = IF now = NoSink THEN now ELSE SinkSeek(now, mode, arg).sink
    /\ nowRet' = IF now = NoSink THEN nowRet ELSE Seen(SinkSeek(now, mode, arg))
    /\ target0' = NoSink
    /\ target' = NoSink
    /\ issued' = <<>>
    /\ UNCHANGED <<start, length>>

\* ------------------------------------------------- Yadon::apply
\* One call made on the target: what was asked, the value recorded for it and
\* what the target answered.
Issue(c, mode, arg, data, expected, r) ==
    [call |-> c, mode |-> mode, arg |-> arg, data |-> data,
     expected |-> expected, ok |-> r.ok, actual |-> r.val]

Outcome(result, tgt, trace) == [result |-> result, target |-> tgt, issued |-> trace]

\* apply_loop with the comparison of the write counts left out.
RECURSIVE apply_loop_no_write_check(_, _, _, _, _)
apply_loop_no_write_check(i, tgt, total_bytes_written, trace, check_return_values) ==
    IF i > Len(operations)
    THEN LET r == SinkFlush(tgt)
             t == Append(trace, Issue("flush", "", 0, <<>>, 0, r))
         IN  IF ~r.ok THEN Outcome(Io, r.sink, t)
             ELSE Outcome(Ok(total_bytes_written), r.sink, t)
    ELSE LET o == operations[i]
         IN  IF o.op = "Write"
             THEN LET r == SinkWrite(tgt, o.data)
                      t == Append(trace, Issue("write", "", 0, o.data, o.expected, r))
                  IN  IF ~r.ok THEN Outcome(Io, r.sink, t)
                      ELSE apply_loop_no_write_check(i + 1, r.sink,
                                                     total_bytes_written + r.val, t,
                                                     check_return_values)
             ELSE LET r == SinkSeek(tgt, o.mode, o.arg)
                      t == Append(trace, Issue("seek", o.mode, o.arg, <<>>, o.expected, r))
                  IN  IF ~r.ok THEN Outcome(Io, r.sink, t)
                      ELSE IF check_return_values /\ r.val # o.expected
                      THEN Outcome(SeekDiverged(o.expected, r.val), r.sink, t)
                      ELSE apply_loop_no_write_check(i + 1, r.sink, total_bytes_written,
                                                     t, check_return_values)

\* apply_loop going on after a write the target failed, counting it as 0 bytes.
RECURSIVE apply_loop_ignores_write_error(_, _, _, _, _)
apply_loop_ignores_write_error(i, tgt, total_bytes_written, trace, check_return_values) ==
    IF i > Len(operations)
    THEN LET r == SinkFlush(tgt)
             t == Append(trace, Issue("flush", "", 0, <<>>, 0, r))
         IN  IF ~r.ok THEN Outcome(Io, r.sink, t)
             ELSE Outcome(Ok(total_bytes_written), r.sink, t)
    ELSE LET o == operations[i]
         IN  IF o.op = "Write"
             THEN LET r == SinkWrite(tgt, o.data)
                      t == Append(trace, Issue("write", "", 0, o.data, o.expected, r))
                  IN  IF r.ok /\ check_return_values /\ o.expected # r.val
                      THEN Outcome(NumBytesWrittenDiverge(o.expected, r.val), r.sink, t)
                      ELSE apply_loop_ignores_write_error(i + 1, r.sink,
                                                          total_bytes_written + r.val, t,
                                                          check_return_values)
             ELSE LET r == SinkSeek(tgt, o.mode, o.arg)
                      t == Append(trace, Issue("seek", o.mode, o.arg, <<>>, o.expected, r))
                  IN  IF ~r.ok THEN Outcome(Io, r.sink, t)
                      ELSE IF check_return_values /\ r.val # o.expected
                      THEN Outcome(SeekDiverged(o.expected, r.val), r.sink, t)
                      ELSE apply_loop_ignores_write_error(i + 1, r.sink,
                                                          total_bytes_written, t,
                                                          check_return_values)

\* apply_loop adding up the recorded counts instead of the accepted ones.
RECURSIVE apply_loop_sums_recorded(_, _, _, _, _)
apply_loop_sums_recorded(i, tgt, total_bytes_written, trace, check_return_values) ==
    IF i > Len(operations)
    THEN LET r == SinkFlush(tgt)
             t == Append(trace, Issue("flush", "", 0, <<>>, 0, r))
         IN  IF ~r.ok THEN Outcome(Io, r.sink, t)
             ELSE Outcome(Ok(total_bytes_written), r.sink, t)
    ELSE LET o == operations[i]
         IN  IF o.op = "Write"
             THEN LET r == SinkWrite(tgt, o.data)
                      t == Append(trace, Issue("write", "", 0, o.data, o.expected, r))
                  IN  IF ~r.ok THEN Outcome(Io, r.sink, t)
                      ELSE IF check_return_values /\ o.expected # r.val
                      THEN Outcome(NumBytesWrittenDiverge(o.expected, r.val), r.sink, t)
                      ELSE apply_loop_sums_recorded(i + 1, r.sink,
                                                    total_bytes_written + o.expected, t,
                                                    check_return_values)
             ELSE LET r == SinkSeek(tgt, o.mode, o.arg)
                      t == Append(trace, Issue("seek", o.mode, o.arg, <<>>, o.expected, r))
                  IN  IF ~r.ok THEN Outcome(Io, r.sink, t)
                      ELSE IF check_return_values /\ r.val # o.expected
                      THEN Outcome(SeekDiverged(o.expected, r.val), r.sink, t)
                      ELSE apply_loop_sums_recorded(i + 1, r.sink, total_bytes_written,
                                                    t, check_return_values)

\* The loop over self.operations from entry i on, then the flush.
RECURSIVE apply_loop(_, _, _, _, _)
apply_loop(i, tgt, total_bytes_written, trace, check_return_values) ==
    IF i > Len(operations)
    THEN LET r == SinkFlush(tgt)
             t == Append(trace, Issue("flush", "", 0, <<>>, 0, r))
         IN  IF ~r.ok THEN Outcome(Io, r.sink, t)
             ELSE Outcome(Ok(total_bytes_written), r.sink, t)
    ELSE LET o == operations[i]
         IN  IF o.op = "Write"
             THEN LET r == SinkWrite(tgt, o.data)
                      t == Append(trace, Issue("write", "", 0, o.data, o.expected, r))
                  IN  IF ~r.ok THEN Outcome(Io, r.sink, t)
                      ELSE IF check_return_values /\ o.expected # r.val
                      THEN Outcome(NumBytesWrittenDiverge(o.expected, r.val), r.sink, t)
                      ELSE apply_loop(i + 1, r.sink, total_bytes_written + r.val, t,
                                      check_return_values)
             ELSE LET r == SinkSeek(tgt, o.mode, o.arg)
                      t == Append(trace, Issue("seek", o.mode, o.arg, <<>>, o.expected, r))
                  IN  IF ~r.ok THEN Outcome(Io, r.sink, t)
                      ELSE IF check_return_values /\ r.val # o.expected
                      THEN Outcome(SeekDiverged(o.expected, r.val), r.sink, t)
                      ELSE apply_loop(i + 1, r.sink, total_bytes_written, t,
                                      check_return_values)

\* apply_run replaying from wherever the target's cursor is.
apply_run_never_seeks(tgt, check_return_values) ==
    apply_loop(1, tgt, 0, <<>>, check_return_values)

\* apply_run seeking to 0 when no start is set.
apply_run_always_seeks(tgt, check_return_values) ==
    LET origin == IF start # None THEN start ELSE 0
        r == SinkSeek(tgt, "Start", origin)
        t == <<Issue("seek", "Start", origin, <<>>, origin, r)>>
    IN  IF ~r.ok THEN Outcome(Io, r.sink, t)
        ELSE IF check_return_values /\ r.val # origin
        THEN Outcome(SeekDiverged(origin, r.val), r.sink, t)
        ELSE apply_loop(1, r.sink, 0, t, check_return_values)

\* apply_run with check_return_values taken to be true whatever was passed.
apply_run_always_checks(tgt, check_return_values) ==
    IF start # None
    THEN LET r == SinkSeek(tgt, "Start", start)
             t == <<Issue("seek", "Start", start, <<>>, start, r)>>
         IN  IF ~r.ok THEN Outcome(Io, r.sink, t)
             ELSE IF r.val # start
             THEN Outcome(SeekDiverged(start, r.val), r.sink, t)
             ELSE apply_loop(1, r.sink, 0, t, TRUE)
    ELSE apply_loop(1, tgt, 0, <<>>, TRUE)

\* The seek to start, when start is set, then the loop.
apply_run(tgt, check_return_values) ==
    IF start # None
    THEN LET r == SinkSeek(tgt, "Start", start)
             t == <<Issue("seek", "Start", start, <<>>, start, r)>>
         IN  IF ~r.ok THEN Outcome(Io, r.sink, t)
             ELSE IF check_return_values /\ r.val # start
             THEN Outcome(SeekDiverged(start, r.val), r.sink, t)
             ELSE apply_loop(1, r.sink, 0, t, check_return_values)
    ELSE apply_loop(1, tgt, 0, <<>>, check_return_values)

\* apply taking the log out of the Yadon as it replays it.
apply_draining(tgt, check_return_values) ==
    /\ ret.kind # "Panic"
    /\ LET run == apply_run(tgt, check_return_values)
       IN  /\ ret' = run.result
           /\ target' = run.target
           /\ issued' = run.issued
    /\ target0' = tgt
    /\ call' = [op |-> "apply", mode |-> "", arg |-> 0, buf |-> <<>>,
                check |-> check_return_values]
    /\ operations' = <<>>
    /\ UNCHANGED <<virtual_position, start, length, overflow_checks, ncalls, now, nowRet>>

apply(tgt, check_return_values) ==
    /\ ret.kind # "Panic"
    /\ LET run == apply_run(tgt, check_return_values)
       IN  /\ ret' = run.result
           /\ target' = run.target
           /\ issued' = run.issued
    /\ target0' = tgt
    /\ call' = [op |-> "apply", mode |-> "", arg |-> 0, buf |-> <<>>,
                check |-> check_return_values]
    /\ UNCHANGED <<operations, virtual_position, start, length, overflow_checks,
                   ncalls, now, nowRet>>

\* ------------------------------------------------- the program
Next ==
    \/ \E n \in BufLens : write(Buffer(ncalls + 1, n))
    \/ \E o \in SeekOffsets : seek("Start", o)
    \/ \E d \in Deltas : seek("Current", d)
    \/ \E d \in Deltas : seek("End", d)
    \/ \E cap \in Capacities, check \in BOOLEAN : apply(Sink(cap, 0), check)

Spec == Init /\ [][Next]_vars

\* ------------------------------------------------- the program on a failing target
\* The capacity of the targets below.
Capacity == MaxLength + 1

\* How many calls a failing target answers before the one it fails: from none
\* to all but the flush of the longest replay.
Fuses == 0 .. (MaxCalls + 1)

NextFaulty ==
    \/ \E n \in BufLens : write(Buffer(ncalls + 1, n))
    \/ \E o \in SeekOffsets : seek("Start", o)
    \/ \E d \in Deltas : seek("Current", d)
    \/ \E d \in Deltas : seek("End", d)
    \/ \E f \in Fuses, check \in BOOLEAN : apply(Faulty(Sink(Capacity, 0), f), check)

SpecFaulty == Init /\ [][NextFaulty]_vars

\* ------------------------------------------------- the program on a used target
\* Where the cursor of a fresh target may be when it is handed to apply:
\* inside the target, or past its end.
CursorPositions == {1, Capacity + 1}

\* apply again on the target the last apply left.
reapply(check_return_values) ==
    /\ call.op = "apply"
    /\ apply(target, check_return_values)

NextCursor ==
    \/ \E n \in BufLens : write(Buffer(ncalls + 1, n))
    \/ \E o \in SeekOffsets : seek("Start", o)
    \/ \E d \in Deltas : seek("Current", d)
    \/ \E d \in Deltas : seek("End", d)
    \/ \E p \in CursorPositions, check \in BOOLEAN : apply(Sink(Capacity, p), check)
    \/ \E check \in BOOLEAN : reapply(check)

SpecCursor == Init /\ [][NextCursor]_vars

\* ------------------------------------------------- what the claims speak of
\* The calls a complete replay makes before the flush: the seek to start when
\* start is set, then the log in order, each with its recorded value.
Plan ==
    (IF start # None
     THEN <<[call |-> "seek", mode |-> "Start", arg |-> start, data |-> <<>>,
             expected |-> start]>>
     ELSE <<>>)
    \o [i \in 1 .. Len(operations) |->
          IF operations[i].op = "Write"
          THEN [call |-> "write", mode |-> "", arg |-> 0, data |-> operations[i].data,
                expected |-> operations[i].expected]
          ELSE [call |-> "seek", mode |-> operations[i].mode, arg |-> operations[i].arg,
                data |-> <<>>, expected |-> operations[i].expected]]

\* What an issued call asked for, without the target's answer.
Request(e) ==
    [call |-> e.call, mode |-> e.mode, arg |-> e.arg, data |-> e.data,
     expected |-> e.expected]

\* One call made directly on a sink.
DirectStep(s, q) ==
    IF q.call = "seek" THEN SinkSeek(s, q.mode, q.arg)
    ELSE IF q.call = "write" THEN SinkWrite(s, q.data)
    ELSE SinkFlush(s)

\* The sink after the first k calls of plan are made directly on it, and the
\* answer it gives to the k-th.
RECURSIVE Direct(_, _, _)
Direct(plan, s, k) ==
    IF k = 0 THEN s ELSE DirectStep(Direct(plan, s, k - 1), plan[k]).sink

Answer(plan, s, k) == DirectStep(Direct(plan, s, k - 1), plan[k])

\* The k-th call of the plan is the first whose real result differs from the
\* recorded value, on the target handed to the last apply.
FirstDivergence(k) ==
    /\ Answer(Plan, target0, k).ok
    /\ Answer(Plan, target0, k).val # Plan[k].expected
    /\ \A j \in 1 .. (k - 1) :
          /\ Answer(Plan, target0, j).ok
          /\ Answer(Plan, target0, j).val = Plan[j].expected

\* The position a call starts from: the current one if known, else start if
\* set, else 0.
EffectivePosition ==
    IF virtual_position # None THEN virtual_position
    ELSE IF start # None THEN start
    ELSE 0

Max(a, b) == IF a > b THEN a ELSE b

\* The step is a write call, a seek call.
WriteStep == ncalls' # ncalls /\ call'.op = "write"

SeekStep == ncalls' # ncalls /\ call'.op = "seek"

\* The step is an apply call (write and seek count their calls).
ApplyStep == ncalls' = ncalls /\ call'.op = "apply"

\* What a trace of issued calls asked for.
Requests(t) == [j \in 1 .. Len(t) |-> Request(t[j])]

IsPrefix(a, b) == Len(a) <= Len(b) /\ a = SubSeq(b, 1, Len(a))

\* The exact value of a seek's resolution rule, over the integers: offset,
\* length + delta, or delta added to the effective position.
ExactSeek(mode, arg) ==
    IF mode = "Start" THEN arg
    ELSE IF mode = "End" THEN length + arg
    ELSE EffectivePosition + arg

\* ------------------------------------------------- C1
\* C1 (as claimed): with start and length both set, every value a write or
\* seek on the Yadon returns is the value the real sink of capacity length,
\* cursor at start, returns for the same call; and a validated apply on a
\* target of that capacity succeeds and leaves the bytes the direct calls left.
C1_SimulationMatchesRealSink ==
    (start # None /\ length # None) =>
        /\ call.op \in {"write", "seek"} =>
              /\ (ret.kind = "Ok") = nowRet.ok
              /\ ret.kind = "Ok" => ret.val = nowRet.val
        /\ (call.op = "apply" /\ call.check /\ Len(target0.bytes) = length) =>
              /\ ret.kind = "Ok"
              /\ target.bytes = now.bytes

\* ------------------------------------------------- C2
\* C2: in a validated apply, the first call whose real result differs from the
\* recorded value ends the apply with the divergence error of its kind,
\* carrying the recorded and the real value; it is the last call issued, and
\* the target is left as the calls issued so far (that one included) made it.
C2_FirstDivergenceEndsApply ==
    (call.op = "apply" /\ call.check) =>
        \A k \in 1 .. Len(Plan) :
            FirstDivergence(k) =>
                LET a == Answer(Plan, target0, k).val
                    e == Plan[k].expected
                IN  /\ ret = IF Plan[k].call = "seek" THEN SeekDiverged(e, a)
                             ELSE NumBytesWrittenDiverge(e, a)
                    /\ Len(issued) = k
                    /\ \A j \in 1 .. k : Request(issued[j]) = Plan[j]
                    /\ issued[k].actual = a
                    /\ target = Direct(Plan, target0, k)

\* A validated apply whose write took fewer bytes than recorded: the bytes it
\* took stay in the target, and the rest of the log was not issued.
C2_Witness ==
    /\ call.op = "apply"
    /\ call.check
    /\ ret.kind = "NumBytesWrittenDiverge"
    /\ ret.actual > 0
    /\ target.bytes # target0.bytes
    /\ Len(issued) < Len(Plan)

\* ------------------------------------------------- C3
\* C3: an apply without validation never returns a divergence error, and
\* returns Ok whenever no call on the target failed.
C3_UnvalidatedNeverDiverges ==
    (call.op = "apply" /\ ~call.check) =>
        /\ ret.kind \notin {"SeekDiverged", "NumBytesWrittenDiverge"}
        /\ (\A j \in 1 .. Len(issued) : issued[j].ok) => ret.kind = "Ok"

\* An apply without validation that returned Ok although a seek and a write
\* both answered differently from what was recorded.
C3_Witness ==
    /\ call.op = "apply"
    /\ ~call.check
    /\ ret.kind = "Ok"
    /\ \E j \in 1 .. Len(issued) :
          issued[j].call = "seek" /\ issued[j].actual # issued[j].expected
    /\ \E j \in 1 .. Len(issued) :
          issued[j].call = "write" /\ issued[j].actual # issued[j].expected

\* ------------------------------------------------- C4
\* C4: with length set and c = length - p the capacity left at the effective
\* position p, a write of n bytes with 0 <= c < n returns c and logs the first
\* c bytes of the buffer; with n <= c it returns n and logs the whole buffer.
C4_ClampingLaw ==
    [][(WriteStep /\ length # None) =>
           LET c == length - EffectivePosition
               n == Len(call'.buf)
           IN  /\ (0 <= c /\ c < n) =>
                     /\ ret' = Ok(c)
                     /\ operations' = Append(operations, Write(SubSeq(call'.buf, 1, c), c))
               /\ n <= c =>
                     /\ ret' = Ok(n)
                     /\ operations' = Append(operations, Write(call'.buf, n))]_vars

\* A write that was cut to a shorter, non-empty prefix of its buffer.
C4_Witness ==
    /\ call.op = "write"
    /\ length # None
    /\ ret.kind = "Ok"
    /\ 0 < ret.val
    /\ ret.val < Len(call.buf)
    /\ operations[Len(operations)] = Write(SubSeq(call.buf, 1, ret.val), ret.val)

\* ------------------------------------------------- C5
\* C5 (as claimed): with length set, the virtual position, when known, is
\* never greater than length.
C5_PositionNeverExceedsLength ==
    (length # None /\ virtual_position # None) => virtual_position <= length

\* No seek of the log resolved to a position beyond length.
SeeksWithinLength ==
    \A i \in 1 .. Len(operations) :
        operations[i].op = "Seek" => operations[i].expected <= length

\* C5 (amended): with length set, start (when set) at most length and no seek
\* resolved beyond length, the virtual position, when known, is never greater
\* than length: writes never move it past length, seeks are not bounded.
C5_WritesStayWithinLength ==
    (/\ length # None
     /\ start # None => start <= length
     /\ SeeksWithinLength
     /\ virtual_position # None) => virtual_position <= length

\* After a seek within length, a write that was cut short and left the
\* position at length.
C5_Witness ==
    /\ length # None
    /\ start # None => start <= length
    /\ SeeksWithinLength
    /\ \E i \in 1 .. Len(operations) : operations[i].op = "Seek"
    /\ call.op = "write"
    /\ ret.kind = "Ok"
    /\ ret.val < Len(call.buf)
    /\ virtual_position = length

\* ------------------------------------------------- C6
\* C6 (as claimed): with length set, in every reachable state a write of n
\* bytes returns without error a count of at most max(0, length - p), p the
\* effective position before the write.
C6_WriteNeverPastLength ==
    [][(WriteStep /\ length # None) =>
           /\ ret'.kind = "Ok"
           /\ ret'.val <= Max(0, length - EffectivePosition)]_vars

\* ------------------------------------------------- C7
\* C7 (as claimed): a seek End(delta) returns length + delta when length is
\* set, whatever the position and start are, and fails with Unsupported when
\* length is not set, whatever start is and whatever came before.
C7_SeekFromEndLaw ==
    (call.op = "seek" /\ call.mode = "End") =>
        IF length # None THEN ret = Ok(length + call.arg) ELSE ret = Unsupported

\* ------------------------------------------------- C8
\* C8 (as claimed): every seek that succeeds returns the exact value of its
\* resolution rule, and that value is not negative (never a wrapped one).
C8_SeekReturnsExactPosition ==
    [][(SeekStep /\ ret'.kind = "Ok") =>
           /\ ret'.val = ExactSeek(call'.mode, call'.arg)
           /\ ret'.val >= 0]_vars

\* ------------------------------------------------- C9
\* C9: every write and every successful seek that returns appends exactly one
\* entry, of its kind, at the end of the log and leaves the earlier entries
\* alone; a seek that fails with Unsupported leaves the log as it was.
C9_LogIsAppendOnly ==
    [][(ncalls' # ncalls) =>
           /\ (ret'.kind = "Ok") =>
                 /\ Len(operations') = Len(operations) + 1
                 /\ SubSeq(operations', 1, Len(operations)) = operations
                 /\ operations'[Len(operations')].op =
                        (IF call'.op = "write" THEN "Write" ELSE "Seek")
                 /\ operations'[Len(operations')].expected = ret'.val
           /\ (call'.op = "write") => ret'.kind \in {"Ok", "Panic"}
           /\ (ret'.kind = "Unsupported") => operations' = operations]_vars

\* A write cut to zero bytes, logged after an earlier entry.
C9_Witness ==
    /\ call.op = "write"
    /\ ret = Ok(0)
    /\ Len(operations) > 1
    /\ operations[Len(operations)] = Write(<<>>, 0)

\* ------------------------------------------------- C10
\* C10 (as claimed): apply leaves the log, start, length and the virtual
\* position unchanged, and an apply that follows another issues exactly the
\* calls, with the expected values, that the first one issued.
C10_SecondApplyIssuesTheSame ==
    [][ApplyStep =>
           /\ UNCHANGED yadon
           /\ (call.op = "apply") => Requests(issued') = Requests(issued)]_vars

\* C10 (amended): apply, whether it succeeds or fails and whatever validate
\* is, leaves the log, start, length and the virtual position unchanged, so an
\* apply that follows another replays the same calls with the same expected
\* values: of the two sequences issued one is a prefix of the other (an apply
\* that fails stops early), and they are equal when both applies return Ok.
C10_ApplyLeavesYadonUnchanged ==
    [][ApplyStep =>
           /\ UNCHANGED yadon
           /\ (call.op = "apply") =>
                 /\ \/ IsPrefix(Requests(issued), Requests(issued'))
                    \/ IsPrefix(Requests(issued'), Requests(issued))
                 /\ (ret.kind = "Ok" /\ ret'.kind = "Ok") =>
                        Requests(issued') = Requests(issued)]_vars

\* An apply that failed on a seek after its write went through, with the
\* log still whole.
C10_Witness ==
    /\ call.op = "apply"
    /\ ret.kind = "SeekDiverged"
    /\ Len(operations) > 1
    /\ \E j \in 1 .. Len(issued) : issued[j].call = "write" /\ issued[j].actual > 0

\* ------------------------------------------------- C11
\* C11: every Write entry of the log records a count equal to the length of
\* its payload; the entry a write has just logged holds a prefix of the buffer
\* passed to that write, and its count is the value the write returned.
C11_WriteEntriesAreConsistent ==
    /\ \A i \in 1 .. Len(operations) :
          operations[i].op = "Write" =>
              operations[i].expected = Len(operations[i].data)
    /\ (call.op = "write" /\ ret.kind = "Ok") =>
          LET e == operations[Len(operations)]
          IN  /\ e.op = "Write"
              /\ Len(e.data) <= Len(call.buf)
              /\ e.data = SubSeq(call.buf, 1, Len(e.data))
              /\ e.expected = ret.val

\* A log of two Write entries, the first with its whole buffer, the last cut
\* shorter than the buffer passed.
C11_Witness ==
    /\ Len(operations) > 1
    /\ operations[1].op = "Write"
    /\ operations[1].expected > 0
    /\ call.op = "write"
    /\ ret.kind = "Ok"
    /\ operations[Len(operations)].expected < Len(call.buf)

\* ------------------------------------------------- C12
\* The bytes the target takes over the writes among the first k calls of the
\* plan, made directly on the target handed to the last apply.
RECURSIVE SumAccepted(_)
SumAccepted(k) ==
    IF k = 0 THEN 0
    ELSE SumAccepted(k - 1)
         + (IF Plan[k].call = "write" THEN Answer(Plan, target0, k).val ELSE 0)

\* The counts recorded in the first k entries of the log.
RECURSIVE SumRecorded(_)
SumRecorded(k) ==
    IF k = 0 THEN 0
    ELSE SumRecorded(k - 1)
         + (IF operations[k].op = "Write" THEN operations[k].expected ELSE 0)

\* C12: an apply that succeeds returns the sum of the counts the target
\* accepted over the logged writes; with validation that is the sum of the
\* recorded counts.
C12_ApplyReturnsBytesAccepted ==
    (call.op = "apply" /\ ret.kind = "Ok") =>
        /\ ret = Ok(SumAccepted(Len(Plan)))
        /\ call.check => ret.val = SumRecorded(Len(operations))

\* An apply without validation that succeeded with a total, not zero, smaller
\* than the sum of the recorded counts.
C12_Witness ==
    /\ call.op = "apply"
    /\ ~call.check
    /\ ret.kind = "Ok"
    /\ 0 < ret.val
    /\ ret.val < SumRecorded(Len(operations))

\* ------------------------------------------------- C13
\* The flush that ends a complete replay.
FlushRequest == [call |-> "flush", mode |-> "", arg |-> 0, data |-> <<>>, expected |-> 0]

\* C13: an apply that succeeds has issued, in this order and nothing else, an
\* absolute seek to start if and only if start is set, each entry of the log
\* once in log order, and one flush.
C13_SuccessfulApplyIssuesThePlan ==
    (call.op = "apply" /\ ret.kind = "Ok") =>
        Requests(issued) = Plan \o <<FlushRequest>>

\* A successful apply that issued the seek to start, a logged seek, a logged
\* write that put bytes in the target, and the flush.
C13_Witness ==
    /\ call.op = "apply"
    /\ ret.kind = "Ok"
    /\ start # None
    /\ Len(issued) = 4
    /\ issued[2].call = "seek"
    /\ issued[3].call = "write"
    /\ issued[3].actual > 0
    /\ issued[4].call = "flush"

\* A successful apply of a Yadon without start: its first call on the target
\* is the first entry of the log.
C13_WitnessNoStart ==
    /\ call.op = "apply"
    /\ ret.kind = "Ok"
    /\ start = None
    /\ Len(issued) = Len(operations) + 1
    /\ Len(operations) > 0

\* ------------------------------------------------- C14
\* C14 (as claimed): a seek Start(offset) returns offset whatever the state; a
\* seek Current(delta) returns the position plus delta when the position is
\* known, start plus delta when it is not and start is set, and delta when
\* neither is; the value returned becomes the virtual position and is the
\* value recorded in the log entry.
C14_SeekResolution ==
    [][(SeekStep /\ call'.mode \in {"Start", "Current"}) =>
           LET p == IF call'.mode = "Start" THEN call'.arg
                    ELSE IF virtual_position # None THEN virtual_position + call'.arg
                    ELSE IF start # None THEN start + call'.arg
                    ELSE call'.arg
           IN  /\ ret' = Ok(p)
               /\ virtual_position' = p
               /\ operations' = Append(operations, Seek(call'.mode, call'.arg, p))]_vars

\* ------------------------------------------------- C15
\* C15 (as claimed): after a write that returns, the virtual position is the
\* effective position before the write plus the count the write returned,
\* whether or not start and length are set; a seek Current(0) made right after
\* returns that position.
C15_WriteAdvancesEffectivePosition ==
    [][/\ (WriteStep /\ ret'.kind = "Ok") =>
              virtual_position' = EffectivePosition + ret'.val
       /\ (SeekStep /\ call.op = "write" /\ ret.kind = "Ok"
           /\ call'.mode = "Current" /\ call'.arg = 0) =>
              ret' = Ok(virtual_position)]_vars

\* ------------------------------------------------- C16
\* There is a position to resolve against: the virtual position is known, or
\* start is set.
PositionKnown == virtual_position # None \/ start # None

\* C16 (as claimed): once start is set, or a seek or a write has succeeded,
\* no later call, a failed seek included, makes the position unknown again.
C16_PositionStaysKnown ==
    [][/\ PositionKnown => PositionKnown'
       /\ ((WriteStep \/ SeekStep) /\ ret'.kind = "Ok") => virtual_position' # None]_vars

\* ------------------------------------------------- C17
\* The calls of a complete replay: the plan, then the flush.
FullPlan == Plan \o <<FlushRequest>>

\* The k-th call of a complete replay is the first the target fails, and no
\* earlier call ended the apply: each was answered and, under validation,
\* with the recorded value.
FirstFailure(k) ==
    /\ ~Answer(FullPlan, target0, k).ok
    /\ \A j \in 1 .. (k - 1) :
          /\ Answer(FullPlan, target0, j).ok
          /\ call.check => Answer(FullPlan, target0, j).val = FullPlan[j].expected

\* C17: whether or not apply validates, the first seek, write or flush the
\* target fails ends the apply with Io; it is the last call issued, so no
\* later entry and no flush reaches the target, and the target keeps what the
\* calls before it did.
C17_TargetErrorEndsApply ==
    call.op = "apply" =>
        \A k \in 1 .. Len(FullPlan) :
            FirstFailure(k) =>
                /\ ret = Io
                /\ Requests(issued) = SubSeq(FullPlan, 1, k)
                /\ ~issued[k].ok
                /\ target.bytes = Direct(FullPlan, target0, k - 1).bytes
                /\ target.pos = Direct(FullPlan, target0, k - 1).pos

\* An apply ended by a failed write after an earlier write had put bytes in
\* the target, with more of the replay still to come.
C17_Witness ==
    /\ call.op = "apply"
    /\ ret.kind = "Io"
    /\ Len(issued) < Len(FullPlan)
    /\ issued[Len(issued)].call = "write"
    /\ ~issued[Len(issued)].ok
    /\ target.bytes # target0.bytes

\* An apply ended by the target failing the flush, and one ended by it
\* failing a seek without validation.
C17_WitnessFlush ==
    /\ call.op = "apply"
    /\ ret.kind = "Io"
    /\ Len(issued) = Len(FullPlan)
    /\ issued[Len(issued)].call = "flush"
    /\ target.bytes # target0.bytes

C17_WitnessSeek ==
    /\ call.op = "apply"
    /\ ~call.check
    /\ ret.kind = "Io"
    /\ Len(issued) > 1
    /\ issued[Len(issued)].call = "seek"
    /\ Blown(Direct(FullPlan, target0, Len(issued) - 1))

\* ------------------------------------------------- C18
\* C18: with start set, what apply returns and the bytes it leaves do not
\* depend on where the target's cursor is when apply is called: they are
\* those of the same apply on the same target with its cursor at 0; so an
\* apply on the target the apply before it left returns what that one
\* returned and leaves the bytes it left.
C18_ApplyIgnoresTheCursor ==
    [][(ApplyStep /\ start # None) =>
           LET rewound == apply_run([target0' EXCEPT !.pos = 0], call'.check)
           IN  /\ ret' = rewound.result
               /\ target'.bytes = rewound.target.bytes
               /\ (call.op = "apply" /\ target0' = target /\ call'.check = call.check) =>
                     /\ ret' = ret
                     /\ target'.bytes = target.bytes]_vars

\* A second apply on a target whose cursor the first left away from both 0
\* and start, and in which it left bytes; the second put bytes there too.
C18_Witness ==
    /\ call.op = "apply"
    /\ start # None
    /\ target0.pos \notin {0, start}
    /\ \E i \in 1 .. Len(target0.bytes) : target0.bytes[i] # 0
    /\ ret.kind = "Ok"
    /\ ret.val > 0

\* ------------------------------------------------- C19
\* C19: with start and length both set, start at most length and every seek
\* of the log resolved within [0, length], the virtual position is known
\* after the first call and stays within [0, length], and a validated apply
\* on a target of capacity length succeeds with the sum of the recorded
\* write counts.
C19_WellFormedSessionReplays ==
    (/\ start # None
     /\ length # None
     /\ start <= length
     /\ SeeksWithinLength) =>
        /\ ret.kind # "Panic"
        /\ ncalls > 0 =>
              /\ virtual_position # None
              /\ 0 <= virtual_position
              /\ virtual_position <= length
        /\ (call.op = "apply" /\ call.check /\ Len(target0.bytes) = length) =>
              ret = Ok(SumRecorded(Len(operations)))

\* A validated apply on a target of capacity length that succeeded with bytes
\* written, the log holding a seek and a write that was cut short.
C19_Witness ==
    /\ start # None
    /\ length # None
    /\ start <= length
    /\ SeeksWithinLength
    /\ call.op = "apply"
    /\ call.check
    /\ Len(target0.bytes) = length
    /\ ret.kind = "Ok"
    /\ ret.val > 0
    /\ \E i \in 1 .. Len(operations) : operations[i].op = "Seek"
    /\ \E i \in 1 .. Len(operations) :
          operations[i].op = "Write" /\ operations[i].expected < MaxLength + 1

====
